---- MODULE Spec2Model ----
(***************************************************************************)
(* faast.js, src/aws/aws-cloudify.ts.                                      *)
(*                                                                         *)
(* Part 1: the queue-mode call path of the AWS provider: the table of      *)
(* deferred call results (state.callResultPromises), the result collector  *)
(* that long-polls the SQS response queue, the per-call async function     *)
(* built by cloudifyWithResponse, and cancelWithoutCleanup.  JavaScript    *)
(* runs each callback to its next await without interleaving, so one       *)
(* action is one such run, together with the promise continuations         *)
(* (microtasks) it triggers.                                               *)
(*                                                                         *)
(* Part 2: the funnel built by throttle() (src/throttle.ts is not part of  *)
(* the sources at hand; it is modelled from its specification).            *)
(***************************************************************************)
EXTENDS Integers, Sequences, FiniteSets, TLC

\* ---------------------------------------------------------------- bounds
NumCalls == 2       \* calls made through the cloudified function
MaxQueue == 2       \* messages on the response queue at once, in flight included

NumOps == 3         \* operations submitted to the funnel
NumKeys == 2        \* distinct canonical argument strings
MaxConcurrency == 2 \* largest `concurrency` option tried
MaxBurst == 2       \* largest `burst` option tried
MaxRetry == 1       \* largest `retry` option tried

NumRuns == 2        \* calls of collectGarbage in the process
MaxWorkers == 2     \* workers of one collectGarbage run in its funnel at once
MaxAttempts == 8    \* largest n given to pollAWSRequest

\* receiveMessage is asked for at most this many messages.
MaxNumberOfMessages == 10

CallIds == 1..NumCalls
UnknownId == 0                  \* a CallId no call of this process owns
AllIds == {UnknownId} \cup CallIds

\* ------------------------------------------------------------- messages
\* An SQS message on the response queue.  Its Body is a JSON FunctionReturn
\* {CallId, type, value}, or text that JSON.parse rejects, or is absent.
\* The remote function is deterministic: what the call with a given CallId
\* returns or throws.  The payload differs from one CallId to the next.
ValueFor(id) == id + 1
FunctionResult(id) ==
    [CallId |-> id, type |-> IF id % 2 = 1 THEN "returned" ELSE "error",
     value |-> ValueFor(id)]
\* The FunctionReturn messages: one per CallId of this run, and one whose
\* CallId (UnknownId) no call of this run carries.
ResponseMsgs == {FunctionResult(id) : id \in AllIds}
Malformed == [CallId |-> UnknownId, type |-> "malformed", value |-> 0]
NoBody == [CallId |-> UnknownId, type |-> "nobody", value |-> 0]
\* A "stop" control message sent to the response queue.  resultCollector
\* has no test for it: it reads its Body like any other, and JSON.parse
\* either rejects that Body or yields a record without a CallId of this run.
StopControl(parses) ==
    [CallId |-> UnknownId, type |-> "stop", value |-> IF parses THEN 1 ELSE 0]
ControlMsgs == {StopControl(parses) : parses \in BOOLEAN}
Messages == ResponseMsgs \cup {Malformed, NoBody} \cup ControlMsgs
\* The messages whose Body JSON.parse rejects.
Unparsable(m) == m.type = "malformed" \/ m = StopControl(FALSE)
NoMsg == [CallId |-> UnknownId, type |-> "none", value |-> 0]

\* The error cancelWithoutCleanup rejects with.
CancelMessage == "Call to cloud function cancelled in cleanup"

\* What the caller of the cloudified function observes.
PendingRv == [status |-> "pending", value |-> 0, error |-> "none", errValue |-> 0]
RejectedRv(reason) ==
    [status |-> "rejected", value |-> 0, error |-> reason, errValue |-> 0]

\* cloudifyWithResponse, after the response is known: a FunctionReturn of
\* type "error" becomes rv.error (value is false), any other becomes rv.value.
\* Variant: returned.type is not tested.
ResponseOfIgnoresType(m) ==
    [status |-> "fulfilled", value |-> m.value, error |-> "none", errValue |-> 0]
ResponseOf(m) ==
    IF m.type = "error"
    THEN [status |-> "fulfilled", value |-> 0, error |-> "remote", errValue |-> m.value]
    ELSE [status |-> "fulfilled", value |-> m.value, error |-> "none", errValue |-> 0]

VARIABLES
    callResultPromises,     \* state.callResultPromises: the CallIds with a deferred
    resultCollectorPromise, \* "unset" | "polling" (awaiting receiveMessage) |
                            \* "deleting" (awaiting the deleteMessage requests) |
                            \* "pollFailed", "threw" (rejected)
    timers,                 \* setTimeout callbacks scheduled by resultCollector
    queue,                  \* visible messages of the SQS response queue
    batch,                  \* received messages whose deleteMessage is in flight,
                            \* each with whether a deferred was found for it
    callPc,                 \* per call: position in the async function
    returned,               \* per call: the FunctionReturn its deferred resolved with
    rv,                     \* per call: what the caller observes
    settled,                \* per call: number of resolve/reject invocations
    loops,                  \* activations of resultCollector that have not ended
    stopPc,                 \* the last cancelWithoutCleanup: "idle" (none, or a
                            \* call was made since it ended) | "waiting" |
                            \* "returned" | "threw" | "returnedAgain" (it
                            \* returned, and so had the one before it)
    cleanupPc               \* cleanup(state): "idle" (not called) | "cancelling"
                            \* (its cancelPromise is pending) | "cancelled"
                            \* (resolved) | "rejected" | "deleting" (deleteTopic
                            \* and deleteQueue are issued) | "done" | "threw"

engineVars == <<callResultPromises, resultCollectorPromise, timers, queue, batch,
                callPc, returned, rv, settled, loops, stopPc, cleanupPc>>

\* The funnel (FunnelState and its configuration).
VARIABLES
    options,            \* {concurrency, burst, retry, memoize} given to throttle()
    ops,                \* per submitted operation: state, key, attempts, owner, result
    admissionQueue,     \* FIFO of the operations waiting for admission
    concurrencyInUse,   \* admission slots in use
    rateTokens,         \* tokens in the bucket
    memoCache,          \* per key: no entry, an in-flight handle or a resolved one
    refillTicks         \* refill ticks that added a token so far

funnelVars == <<options, ops, admissionQueue, concurrencyInUse, rateTokens, memoCache,
                refillTicks>>

\* Garbage collection (collectGarbage and the module's flag).
VARIABLES
    garbageCollectorRunning,    \* the module-level flag
    gcPc,                       \* per call of collectGarbage: "idle" (not made) |
                                \* "skipped" (returned at the flag test) |
                                \* "logGroups", "functions" (awaiting the listing) |
                                \* "awaiting" (Promise.all(promises)) | "done" |
                                \* "failed" (rejected)
    gcWorkers                   \* per call: the workers given to its funnel that
                                \* are queued and that are executing

gcVars == <<garbageCollectorRunning, gcPc, gcWorkers>>

\* initialize (one call) and the State it builds.
VARIABLES
    initPc,             \* "idle" | "accountId" (awaiting getAccountId) |
                        \* "creating" (awaiting Promise.all(promises)) |
                        \* "stopping" (cleanup, in stop) | "deleting" (cleanup,
                        \* in deleteResources) | "returned" | "rejected"
    gcPromise,          \* state.gcPromise: the collectGarbage call, 0 when unset
    queueState,         \* state.queueState: "unset" | "running" | "stopped"
    initError,          \* what initialize rejected with: "none" | "underlying" | "gc"
    resources           \* state.resources: "none" (no State built) | "recorded" |
                        \* "deleted" (deleteResources has completed)

initVars == <<initPc, gcPromise, queueState, initError, resources>>

\* pollAWSRequest (one call).
VARIABLES
    pollPc,             \* "idle" | "requesting" (an attempt of the loop) |
                        \* "sleeping" | "last" (the attempt after the loop) |
                        \* "returned" | "rejected"
    pollN,              \* the argument n
    pollI,              \* the loop variable i
    duration,           \* the local variable duration, in milliseconds
    attempts,           \* calls of fn() so far
    delays,             \* the arguments of the sleep() calls so far
    pollResult          \* the attempt whose result was returned or whose error
                        \* was thrown, 0 while there is none

pollVars == <<pollPc, pollN, pollI, duration, attempts, delays, pollResult>>

lifeVars == <<gcVars, initVars, pollVars>>

vars == <<engineVars, funnelVars, lifeVars>>

callVars == <<callPc, returned, rv, settled>>

\* ------------------------------------------------------------- helpers
isEmpty(obj) == obj = {}

\* startResultCollectorIfNeeded: starts resultCollector when there is a
\* deferred and no collector promise.  resultCollector runs synchronously up
\* to its first await: the while test passes and receiveMessage is issued.
\* Variant: the collector's promise is not tested.
StartsCollectorNoTest(table, promise) == ~isEmpty(table)
StartsCollector(table, promise) == ~isEmpty(table) /\ promise = "unset"
startResultCollectorIfNeeded(table, promise) ==
    IF StartsCollector(table, promise) THEN "polling" ELSE promise
\* The activations of resultCollector after startResultCollectorIfNeeded.
LoopsAfterStart(n, table, promise) ==
    IF StartsCollector(table, promise) THEN n + 1 ELSE n

\* The body of the for loop of resultCollector for one message.  st is the
\* loop's state: the table, the deferreds resolved so far (as a sequence of
\* <<CallId, FunctionReturn>>), the entries for which deleteMessage was
\* issued, and whether an exception has left the loop.
\* Variant: the entry is not deleted from the table when it is looked up.
HandleMessageKeepsEntry(st, m) ==
    IF st.threw THEN st
    ELSE IF m.type = "nobody"
    THEN [st EXCEPT !.entries = Append(@, [msg |-> m, found |-> FALSE])]
    ELSE IF Unparsable(m)
    THEN [st EXCEPT !.threw = TRUE]
    ELSE LET found == m.CallId \in st.table IN
         [st EXCEPT !.resolved = IF found THEN Append(@, <<m.CallId, m>>) ELSE @,
                    !.entries = Append(@, [msg |-> m, found |-> found])]

\* Variant: promise.resolve is called without testing that a promise was
\* found, which throws a TypeError for an unmatched CallId.
HandleMessageNoTest(st, m) ==
    IF st.threw THEN st
    ELSE IF m.type = "nobody"
    THEN [st EXCEPT !.entries = Append(@, [msg |-> m, found |-> FALSE])]
    ELSE IF Unparsable(m)
    THEN [st EXCEPT !.threw = TRUE]
    ELSE LET found == m.CallId \in st.table IN
         IF ~found THEN [st EXCEPT !.threw = TRUE]
         ELSE [st EXCEPT !.table = @ \ {m.CallId},
                         !.resolved = Append(@, <<m.CallId, m>>),
                         !.entries = Append(@, [msg |-> m, found |-> found])]

\* Variant: the deferred is looked up without the CallId (any entry is taken).
HandleMessageAnyEntry(st, m) ==
    IF st.threw THEN st
    ELSE IF m.type = "nobody"
    THEN [st EXCEPT !.entries = Append(@, [msg |-> m, found |-> FALSE])]
    ELSE IF Unparsable(m)
    THEN [st EXCEPT !.threw = TRUE]
    ELSE LET found == st.table # {}
             id == IF found THEN CHOOSE c \in st.table : \A d \in st.table : c <= d
                   ELSE m.CallId
         IN [st EXCEPT !.table = @ \ {id},
                       !.resolved = IF found THEN Append(@, <<id, m>>) ELSE @,
                       !.entries = Append(@, [msg |-> m, found |-> found])]

\* Variant: deleteMessage is issued for a response before its deferred is
\* looked up, and the lookup is left to a later pass.
HandleMessageAckFirst(st, m) ==
    IF st.threw THEN st
    ELSE IF m.type = "nobody"
    THEN [st EXCEPT !.entries = Append(@, [msg |-> m, found |-> FALSE])]
    ELSE IF Unparsable(m)
    THEN [st EXCEPT !.threw = TRUE]
    ELSE [st EXCEPT !.entries = Append(@, [msg |-> m, found |-> m.CallId \in st.table])]

\* Variant: responses are expected in the order of the calls; a response is
\* matched only when its CallId is the oldest entry of the table.
HandleMessageInOrder(st, m) ==
    IF st.threw THEN st
    ELSE IF m.type = "nobody"
    THEN [st EXCEPT !.entries = Append(@, [msg |-> m, found |-> FALSE])]
    ELSE IF Unparsable(m)
    THEN [st EXCEPT !.threw = TRUE]
    ELSE LET found == /\ m.CallId \in st.table
                      /\ \A d \in st.table : m.CallId <= d
         IN [st EXCEPT !.table = IF found THEN @ \ {m.CallId} ELSE @,
                       !.resolved = IF found THEN Append(@, <<m.CallId, m>>) ELSE @,
                       !.entries = Append(@, [msg |-> m, found |-> found])]

HandleMessage(st, m) ==
    IF st.threw THEN st
    ELSE IF m.type = "nobody"
    THEN [st EXCEPT !.entries = Append(@, [msg |-> m, found |-> FALSE])]
    ELSE IF Unparsable(m)
    THEN [st EXCEPT !.threw = TRUE]
    ELSE LET found == m.CallId \in st.table IN
         [st EXCEPT !.table = @ \ {m.CallId},
                    !.resolved = IF found THEN Append(@, <<m.CallId, m>>) ELSE @,
                    !.entries = Append(@, [msg |-> m, found |-> found])]

RECURSIVE ProcessMessages(_, _)
ProcessMessages(st, msgs) ==
    IF msgs = <<>> THEN st
    ELSE ProcessMessages(HandleMessage(st, Head(msgs)), Tail(msgs))

\* The messages of a sequence and the batches one poll can return.
Range(s) == {s[i] : i \in DOMAIN s}
Batches(q) ==
    UNION {{s \in [1..k -> q] : \A i, j \in 1..k : i # j => s[i] # s[j]} :
           k \in {n \in 0..MaxNumberOfMessages : n <= Cardinality(q)}}

\* Over the deferreds resolved by one batch: how often promise.resolve ran for
\* c, and the FunctionReturn of the first time (a promise keeps its first
\* settlement).
ResolveCount(resolved, c) == Cardinality({i \in DOMAIN resolved : resolved[i][1] = c})
FirstResolve(resolved, c) ==
    resolved[CHOOSE i \in DOMAIN resolved :
                /\ resolved[i][1] = c
                /\ \A j \in DOMAIN resolved : resolved[j][1] = c => i <= j][2]

\* ---------------------------------------------------------------- Init
EngineInit ==
    /\ callResultPromises = {}
    /\ resultCollectorPromise = "unset"
    /\ timers = 0
    /\ queue = {}
    /\ batch = {}
    /\ callPc = [c \in CallIds |-> "idle"]
    /\ returned = [c \in CallIds |-> NoMsg]
    /\ rv = [c \in CallIds |-> PendingRv]
    /\ settled = [c \in CallIds |-> 0]
    /\ loops = 0
    /\ stopPc = "idle"
    /\ cleanupPc = "idle"

\* ------------------------------------------------------------- the caller
\* enqueueCallRequest: the deferred is stored under the CallId.
enqueueCallRequest(table, CallId) == table \cup {CallId}

\* cloudifyWithResponse in queue mode, up to its first await: the deferred is
\* registered, the collector started if needed, and the function awaits the
\* deferred's promise.
Call(c) ==
    /\ callPc[c] = "idle"
    /\ \A d \in CallIds : d < c => callPc[d] # "idle"
    /\ callResultPromises' = enqueueCallRequest(callResultPromises, c)
    /\ resultCollectorPromise' =
           startResultCollectorIfNeeded(callResultPromises', resultCollectorPromise)
    /\ loops' = LoopsAfterStart(loops, callResultPromises', resultCollectorPromise)
    /\ callPc' = [callPc EXCEPT ![c] = "awaiting"]
    /\ stopPc' = IF stopPc = "waiting" THEN "waiting" ELSE "idle"
    /\ UNCHANGED <<timers, queue, batch, returned, rv, settled>>
    /\ UNCHANGED <<cleanupPc, funnelVars, lifeVars>>

\* What the async function returns once sns.publish has succeeded.
PublishedRv(m) == ResponseOf(m)
\* What it rejects with when sns.publish fails.
PublishError == "publish failed"
\* Variant: the publish error is caught and the call left unsettled.
RvOnPublishErrorSwallowed == PendingRv
RvOnPublishError == RejectedRv(PublishError)

\* The deferred has resolved; sns.publish was issued and succeeds.
PublishOk(c) ==
    /\ callPc[c] = "publishing"
    /\ callPc' = [callPc EXCEPT ![c] = "done"]
    /\ rv' = [rv EXCEPT ![c] = PublishedRv(returned[c])]
    /\ UNCHANGED <<callResultPromises, resultCollectorPromise, timers, queue, batch,
                   returned, settled, loops, stopPc>>
    /\ UNCHANGED <<cleanupPc, funnelVars, lifeVars>>

\* sns.publish fails: the await throws and the async function rejects.
PublishFail(c) ==
    /\ callPc[c] = "publishing"
    /\ callPc' = [callPc EXCEPT ![c] = "rejected"]
    /\ rv' = [rv EXCEPT ![c] = RvOnPublishError]
    /\ returned' = [returned EXCEPT ![c] = NoMsg]
    /\ UNCHANGED <<callResultPromises, resultCollectorPromise, timers, queue, batch,
                   settled, loops, stopPc>>
    /\ UNCHANGED <<cleanupPc, funnelVars, lifeVars>>

\* --------------------------------------------------------- the collector
\* The cancelPromise of a cleanup() under way awaits the collector's promise
\* inside cancelWithoutCleanup: it settles as that promise does.
CancelPromiseResolved(pc) == IF pc = "cancelling" THEN "cancelled" ELSE pc
CancelPromiseRejected(pc) == IF pc = "cancelling" THEN "rejected" ELSE pc

InFlight == Cardinality(queue) + Cardinality(batch)

\* The loop test of resultCollector after a batch, and its exit: the promise
\* field is deleted and a timer scheduled; an awaiting cancelWithoutCleanup
\* resumes as a microtask, before the timer can fire.
LoopTest(table) == IF ~isEmpty(table) THEN "polling" ELSE "unset"

\* receiveMessage returns the batch b; the for loop runs over it and the
\* deleteMessage requests are issued.  An exception (JSON.parse) rejects the
\* collector's promise; the messages not reached stay on the queue.
PollReturn(b) ==
    /\ resultCollectorPromise = "polling"
    /\ b \in Batches(queue)
    /\ LET st == ProcessMessages([table |-> callResultPromises, resolved |-> <<>>,
                                  entries |-> <<>>, threw |-> FALSE], b)
           handled == {st.entries[i].msg : i \in DOMAIN st.entries}
           woken == {c \in CallIds : ResolveCount(st.resolved, c) > 0
                                     /\ callPc[c] = "awaiting"}
       IN /\ callResultPromises' = st.table
          /\ batch' = Range(st.entries)
          /\ queue' = queue \ handled
          /\ settled' = [c \in CallIds |-> settled[c] + ResolveCount(st.resolved, c)]
          /\ returned' = [c \in CallIds |->
                            IF c \in woken THEN FirstResolve(st.resolved, c)
                            ELSE returned[c]]
          /\ callPc' = [c \in CallIds |->
                          IF c \in woken THEN "publishing" ELSE callPc[c]]
          /\ resultCollectorPromise' = IF st.threw THEN "threw" ELSE "deleting"
          /\ loops' = IF st.threw THEN loops - 1 ELSE loops
          /\ stopPc' = IF st.threw /\ stopPc = "waiting" THEN "threw" ELSE stopPc
          /\ cleanupPc' = IF st.threw THEN CancelPromiseRejected(cleanupPc)
                          ELSE cleanupPc
    /\ UNCHANGED <<timers, rv>>
    /\ UNCHANGED <<funnelVars, lifeVars>>

\* receiveMessage fails: the await throws out of resultCollector, whose
\* promise rejects and stays in state.resultCollectorPromise.
PollFail ==
    /\ resultCollectorPromise = "polling"
    /\ resultCollectorPromise' = "pollFailed"
    /\ loops' = loops - 1
    /\ stopPc' = IF stopPc = "waiting" THEN "threw" ELSE stopPc
    /\ cleanupPc' = CancelPromiseRejected(cleanupPc)
    /\ UNCHANGED <<callResultPromises, timers, queue, batch, callVars>>
    /\ UNCHANGED <<funnelVars, lifeVars>>

\* The deleteMessage requests of the batch complete (carefully() logs a
\* failure; the message then becomes visible again, which Deliver covers).
\* A running collector then tests its loop condition.
DeleteDone ==
    /\ resultCollectorPromise = "deleting"
       \/ (resultCollectorPromise = "threw" /\ batch # {})
    /\ batch' = {}
    /\ IF resultCollectorPromise = "deleting"
       THEN /\ resultCollectorPromise' = LoopTest(callResultPromises)
            /\ timers' = IF isEmpty(callResultPromises) THEN timers + 1 ELSE timers
            /\ loops' = IF isEmpty(callResultPromises) THEN loops - 1 ELSE loops
            /\ stopPc' = IF isEmpty(callResultPromises) /\ stopPc = "waiting"
                         THEN "returned" ELSE stopPc
            /\ cleanupPc' = IF isEmpty(callResultPromises)
                            THEN CancelPromiseResolved(cleanupPc) ELSE cleanupPc
       ELSE UNCHANGED <<resultCollectorPromise, timers, loops, stopPc, cleanupPc>>
    /\ UNCHANGED <<callResultPromises, queue, callVars>>
    /\ UNCHANGED <<funnelVars, lifeVars>>

\* The timer scheduled at the collector's exit fires.
TimerFire ==
    /\ timers > 0
    /\ timers' = timers - 1
    /\ resultCollectorPromise' =
           startResultCollectorIfNeeded(callResultPromises, resultCollectorPromise)
    /\ loops' = LoopsAfterStart(loops, callResultPromises, resultCollectorPromise)
    /\ UNCHANGED <<callResultPromises, queue, batch, callVars, stopPc>>
    /\ UNCHANGED <<cleanupPc, funnelVars, lifeVars>>

\* ------------------------------------------------- cancelWithoutCleanup
\* The table after cancelWithoutCleanup, and the calls it rejects.
\* Variant: the table is not replaced.
ClearedTableKept(table) == table
ClearedTable(table) == {}
\* Variant: only the first entry is rejected.
RejectsFirst(table) == IF table = {} THEN {} ELSE {CHOOSE c \in table : \A d \in table : c <= d}
Rejects(table) == table

\* How cancelWithoutCleanup proceeds after rejecting: it returns when there
\* is no collector promise, else awaits it (a rejected one throws).
\* Variant: the collector's promise is awaited without testing it.
AfterRejectAlwaysAwaits(promise) ==
    IF promise \in {"pollFailed", "threw"} THEN "threw" ELSE "waiting"
AfterReject(promise) ==
    IF promise = "unset" THEN "returned"
    ELSE IF promise \in {"pollFailed", "threw"} THEN "threw"
    ELSE "waiting"

\* cancelWithoutCleanup has returned and no call was made since.
Stopped == {"returned", "returnedAgain"}

cancelWithoutCleanup ==
    /\ stopPc # "waiting"
    /\ callResultPromises' = ClearedTable(callResultPromises)
    /\ LET rejected == Rejects(callResultPromises)
           woken == {c \in rejected : callPc[c] = "awaiting"}
       IN /\ settled' = [c \in CallIds |->
                           IF c \in rejected THEN settled[c] + 1 ELSE settled[c]]
          /\ callPc' = [c \in CallIds |->
                          IF c \in woken THEN "rejected" ELSE callPc[c]]
          /\ rv' = [c \in CallIds |->
                      IF c \in woken THEN RejectedRv(CancelMessage) ELSE rv[c]]
    /\ stopPc' = LET next == AfterReject(resultCollectorPromise) IN
                 IF next = "returned" /\ stopPc \in Stopped
                 THEN "returnedAgain" ELSE next
    /\ UNCHANGED <<resultCollectorPromise, timers, queue, batch, returned, loops>>

Stop ==
    /\ cancelWithoutCleanup
    /\ UNCHANGED <<cleanupPc, funnelVars, lifeVars>>

\* ------------------------------------------------------------- cleanup
\* cleanup(state) after its unsubscribe: cancelWithoutCleanup runs up to its
\* await, and cleanup goes on to delete the function, the log group and the
\* role while cancelPromise is pending or settled.
CancelPromise(after) ==
    IF after = "returned" THEN "cancelled"
    ELSE IF after = "threw" THEN "rejected"
    ELSE "cancelling"

cleanup ==
    /\ cleanupPc = "idle"
    /\ cancelWithoutCleanup
    /\ cleanupPc' = CancelPromise(AfterReject(resultCollectorPromise))
    /\ UNCHANGED <<funnelVars, lifeVars>>

\* The deletions are done and "await cancelPromise" returns: deleteTopic and
\* deleteQueue are issued.
cleanupDeleteQueues ==
    /\ cleanupPc = "cancelled"
    /\ cleanupPc' = "deleting"
    /\ UNCHANGED <<callResultPromises, resultCollectorPromise, timers, queue, batch,
                   callVars, loops, stopPc>>
    /\ UNCHANGED <<funnelVars, lifeVars>>

\* Both requests have completed (quietly() swallows a failure).
cleanupDone ==
    /\ cleanupPc = "deleting"
    /\ cleanupPc' = "done"
    /\ UNCHANGED <<callResultPromises, resultCollectorPromise, timers, queue, batch,
                   callVars, loops, stopPc>>
    /\ UNCHANGED <<funnelVars, lifeVars>>

\* "await cancelPromise" throws: cleanup rejects, the topic and the queue
\* are left in place.
cleanupThrows ==
    /\ cleanupPc = "rejected"
    /\ cleanupPc' = "threw"
    /\ UNCHANGED <<callResultPromises, resultCollectorPromise, timers, queue, batch,
                   callVars, loops, stopPc>>
    /\ UNCHANGED <<funnelVars, lifeVars>>


\* ------------------------------------------------------- the environment
\* The lambda function, invoked through the request topic, sends its
\* FunctionReturn to the response queue.
Published == {c \in CallIds : callPc[c] = "done"}

\* (SNS invokes the lambda at least once per published request.)
Execute(c) ==
    /\ c \in Published
    /\ FunctionResult(c) \notin queue
    /\ InFlight < MaxQueue
    /\ queue' = queue \cup {FunctionResult(c)}
    /\ UNCHANGED <<callResultPromises, resultCollectorPromise, timers, batch,
                   callPc, returned, rv, settled, loops, stopPc>>
    /\ UNCHANGED <<cleanupPc, funnelVars, lifeVars>>

\* Any other message reaching the response queue: a redelivery, a message of
\* an earlier run, a message sent by a test.
Deliver(m) ==
    /\ m \in Messages \ queue
    /\ InFlight < MaxQueue
    /\ queue' = queue \cup {m}
    /\ UNCHANGED <<callResultPromises, resultCollectorPromise, timers, batch,
                   callVars, loops, stopPc>>
    /\ UNCHANGED <<cleanupPc, funnelVars, lifeVars>>

\* ---------------------------------------------------------------------
\* Part 2: the funnel, throttle(options, fn)
\* ---------------------------------------------------------------------
Ops == 1..NumOps
Keys == 1..NumKeys
NoOp == 0

\* The options tried: each limit at its smallest and at its largest value.
\* rate is one token per refill tick.
FunnelOptions ==
    [concurrency : {1, MaxConcurrency}, burst : {1, MaxBurst},
     retry : {0, MaxRetry}, memoize : BOOLEAN]

\* createLambdaRole = throttle({ concurrency: 1, rate: 5, memoize: true }, ...)
createLambdaRoleOptions ==
    [concurrency |-> 1, burst |-> 1, retry |-> 0, memoize |-> TRUE]

\* A result names the execution it comes from: the operation and the attempt.
NoResult == [kind |-> "none", by |-> NoOp, attempt |-> 0]
NewOp == [state |-> "new", key |-> 1, attempts |-> 0, owner |-> NoOp,
          joined |-> FALSE, result |-> NoResult]
NoEntry == [state |-> "none", owner |-> NoOp]

FunnelIdle(o) ==
    /\ options = o
    /\ ops = [i \in Ops |-> NewOp]
    /\ admissionQueue = <<>>
    /\ concurrencyInUse = 0
    /\ rateTokens = o.burst
    /\ memoCache = [k \in Keys |-> NoEntry]
    /\ refillTicks = 0

\* No collectGarbage, initialize or pollAWSRequest call has been made.
Runs == 1..NumRuns
NoWorkers == [queued |-> 0, executing |-> 0]
GcIdle ==
    /\ garbageCollectorRunning = FALSE
    /\ gcPc = [r \in Runs |-> "idle"]
    /\ gcWorkers = [r \in Runs |-> NoWorkers]
InitializeIdle ==
    /\ initPc = "idle"
    /\ gcPromise = 0
    /\ queueState = "unset"
    /\ initError = "none"
    /\ resources = "none"
PollIdle ==
    /\ pollPc = "idle"
    /\ pollN = 0
    /\ pollI = 0
    /\ duration = 0
    /\ attempts = 0
    /\ delays = <<>>
    /\ pollResult = 0
LifeIdle == GcIdle /\ InitializeIdle /\ PollIdle

Init == EngineInit /\ FunnelIdle(createLambdaRoleOptions) /\ LifeIdle

FunnelInit == EngineInit /\ LifeIdle /\ \E o \in FunnelOptions : FunnelIdle(o)

\* The operations whose underlying execution is under way.
Executing == {i \in Ops : ops[i].state = "executing"}
\* The operations that hold an admission slot.
Admitted == {i \in Ops : ops[i].state \in {"executing", "backoff"}}

\* Memoization: the cache entry a call for key k attaches to, if any.  An
\* entry exists from the first call for the key until its failure.
\* Variant: only resolved entries are reused.
MemoHitResolvedOnly(cache, k) == cache[k].state = "resolved"
\* Variant: a call for a key whose execution succeeded executes again.
MemoHitInFlightOnly(cache, k) == cache[k].state = "inflight"
MemoHit(cache, k) == cache[k].state # "none"

\* The keys of the calls made so far.  Keys are interchangeable and matter
\* to a memoized funnel only: a call has a key used before or the lowest
\* unused one.
UsedKeys == {ops[j].key : j \in {i \in Ops : ops[i].state # "new"}}

\* A call enters the funnel.  With memoization, a call whose key has an
\* entry takes that entry's value or attaches to its in-flight execution;
\* any other call joins the admission queue (and, memoized, creates the
\* in-flight entry for its key).
Submit(i, k) ==
    /\ ops[i].state = "new"
    /\ \A j \in Ops : j < i => ops[j].state # "new"
    /\ IF options.memoize THEN k <= Cardinality(UsedKeys) + 1 ELSE k = 1
    /\ IF options.memoize /\ MemoHit(memoCache, k)
       THEN LET e == memoCache[k] IN
            /\ ops' = [ops EXCEPT ![i] =
                  IF e.state = "resolved"
                  THEN [NewOp EXCEPT !.state = "done", !.key = k, !.owner = e.owner,
                                     !.result = ops[e.owner].result]
                  ELSE [NewOp EXCEPT !.state = "attached", !.key = k,
                                     !.owner = e.owner, !.joined = TRUE]]
            /\ UNCHANGED <<admissionQueue, memoCache>>
       ELSE /\ ops' = [ops EXCEPT ![i] =
                  [NewOp EXCEPT !.state = "waiting", !.key = k, !.owner = i]]
            /\ admissionQueue' = Append(admissionQueue, i)
            /\ memoCache' = IF options.memoize
                            THEN [memoCache EXCEPT ![k] =
                                     [state |-> "inflight", owner |-> i]]
                            ELSE memoCache
    /\ UNCHANGED <<options, refillTicks, concurrencyInUse, rateTokens>>
    /\ UNCHANGED <<engineVars, lifeVars>>

\* The two gates: a free slot and a token.
\* Variant: the slot test is off by one.
CanAdmitOffByOne(inUse, tokens, o) == inUse <= o.concurrency /\ tokens >= 1
\* Variant: no token is required.
CanAdmitNoToken(inUse, tokens, o) == inUse < o.concurrency
\* Variant: a token must be left over.
CanAdmitSpareToken(inUse, tokens, o) == inUse < o.concurrency /\ tokens >= 2
CanAdmit(inUse, tokens, o) == inUse < o.concurrency /\ tokens >= 1

\* Which waiter is admitted, and the queue it leaves.
\* Variant: the waiter that came last is taken.
DequeueLast(q) == [op |-> q[Len(q)], rest |-> SubSeq(q, 1, Len(q) - 1)]
Dequeue(q) == [op |-> Head(q), rest |-> Tail(q)]

\* The head of the admission queue passes both gates and starts executing.
Admit ==
    /\ admissionQueue # <<>>
    /\ CanAdmit(concurrencyInUse, rateTokens, options)
    /\ LET i == Dequeue(admissionQueue).op IN
       ops' = [ops EXCEPT ![i].state = "executing", ![i].attempts = 1]
    /\ admissionQueue' = Dequeue(admissionQueue).rest
    /\ concurrencyInUse' = concurrencyInUse + 1
    /\ rateTokens' = rateTokens - 1
    /\ UNCHANGED <<options, refillTicks, memoCache>>
    /\ UNCHANGED <<engineVars, lifeVars>>

\* The operations that observe the outcome of i's execution: i itself and
\* the calls attached to it.
Observers(i) == {j \in Ops : ops[j].owner = i /\ ops[j].state \in {"executing", "attached"}}

\* The underlying operation succeeds: the slot is freed, the value is kept
\* for the key, and every attached call gets it.
Succeed(i) ==
    /\ ops[i].state = "executing"
    /\ ops' = [j \in Ops |->
                 IF j \in Observers(i)
                 THEN [ops[j] EXCEPT !.state = "done",
                                     !.result = [kind |-> "ok", by |-> i,
                                                 attempt |-> ops[i].attempts]]
                 ELSE ops[j]]
    /\ concurrencyInUse' = concurrencyInUse - 1
    /\ memoCache' = IF options.memoize
                    THEN [memoCache EXCEPT ![ops[i].key] =
                             [state |-> "resolved", owner |-> i]]
                    ELSE memoCache
    /\ UNCHANGED <<options, refillTicks, admissionQueue, rateTokens>>
    /\ UNCHANGED <<engineVars, lifeVars>>

\* The underlying operation fails.  With attempts left the call backs off,
\* keeping its slot; otherwise the failure is final: the slot is freed, the
\* key's entry evicted, and every attached call gets the same error.
\* Whether a failed attempt is followed by another one.
\* Variant: one attempt too many.
AttemptsRemainOneMore(op, o) == op.attempts <= o.retry + 1
AttemptsRemain(op, o) == op.attempts <= o.retry

\* The cache entry of a key after the final failure of its execution.
\* Variant: the entry is kept.
EntryAfterFailureKept(entry) == entry
EntryAfterFailure(entry) == NoEntry

Fail(i) ==
    /\ ops[i].state = "executing"
    /\ IF AttemptsRemain(ops[i], options)
       THEN /\ ops' = [ops EXCEPT ![i].state = "backoff"]
            /\ UNCHANGED <<concurrencyInUse, memoCache>>
       ELSE /\ ops' = [j \in Ops |->
                         IF j \in Observers(i)
                         THEN [ops[j] EXCEPT !.state = "failed",
                                             !.result = [kind |-> "err", by |-> i,
                                                         attempt |-> ops[i].attempts]]
                         ELSE ops[j]]
            /\ concurrencyInUse' = concurrencyInUse - 1
            /\ memoCache' = IF options.memoize
                            THEN [memoCache EXCEPT ![ops[i].key] = EntryAfterFailure(@)]
                            ELSE memoCache
    /\ UNCHANGED <<options, refillTicks, admissionQueue, rateTokens>>
    /\ UNCHANGED <<engineVars, lifeVars>>

\* The backoff delay has passed: the operation is executed again.
Retry(i) ==
    /\ ops[i].state = "backoff"
    /\ ops' = [ops EXCEPT ![i].state = "executing", ![i].attempts = @ + 1]
    /\ UNCHANGED <<options, refillTicks, admissionQueue, concurrencyInUse, rateTokens, memoCache>>
    /\ UNCHANGED <<engineVars, lifeVars>>

\* A refill tick of the token bucket.
Refill ==
    /\ rateTokens < options.burst
    /\ rateTokens' = rateTokens + 1
    /\ refillTicks' = refillTicks + 1
    /\ UNCHANGED <<options, ops, admissionQueue, concurrencyInUse, memoCache>>
    /\ UNCHANGED <<engineVars, lifeVars>>

FunnelNext ==
    \/ \E i \in Ops, k \in Keys : Submit(i, k)
    \/ Admit
    \/ \E i \in Ops : Succeed(i)
    \/ \E i \in Ops : Fail(i)
    \/ \E i \in Ops : Retry(i)
    \/ Refill

FunnelSpec == FunnelInit /\ [][FunnelNext]_vars

\* Refill ticks continue, the admission decision is taken whenever it can
\* be, every execution ends and every backoff delay passes.
FairFunnelSpec ==
    /\ FunnelInit /\ [][FunnelNext]_vars
    /\ WF_vars(Refill)
    /\ WF_vars(Admit)
    /\ \A i \in Ops : WF_vars(Succeed(i) \/ Fail(i))
    /\ \A i \in Ops : WF_vars(Retry(i))

\* ---------------------------------------------------------------------
\* Part 1, continued: the specification of the call path
\* ---------------------------------------------------------------------
Next ==
    \/ \E c \in CallIds : Call(c)
    \/ \E c \in CallIds : PublishOk(c)
    \/ \E c \in CallIds : PublishFail(c)
    \/ \E b \in Batches(queue) : PollReturn(b)
    \/ PollFail
    \/ DeleteDone
    \/ TimerFire
    \/ Stop
    \/ \E c \in CallIds : Execute(c)
    \/ \E m \in Messages : Deliver(m)

Spec == Init /\ [][Next]_vars

\* The scheduling the event loop and the services give: a pending request
\* completes, a message on the queue is eventually received, a timer fires,
\* the lambda answers a published request.  Failures, cancelWithoutCleanup,
\* new calls and foreign messages are not forced.
PollReturns == \E b \in Batches(queue) : PollReturn(b)
PollReceives == \E b \in Batches(queue) : b # <<>> /\ PollReturn(b)
FairSpec ==
    /\ Init /\ [][Next]_vars
    /\ WF_vars(PollReturns)
    /\ SF_vars(PollReceives)
    /\ WF_vars(DeleteDone)
    /\ WF_vars(TimerFire)
    /\ \A c \in CallIds : WF_vars(PublishOk(c))
    /\ \A c \in CallIds : WF_vars(Execute(c))

\* The call path together with cleanup(state).
CleanupNext ==
    \/ Next
    \/ cleanup
    \/ cleanupDeleteQueues
    \/ cleanupDone
    \/ cleanupThrows

CleanupSpec == Init /\ [][CleanupNext]_vars

TypeOK ==
    /\ callResultPromises \subseteq CallIds
    /\ resultCollectorPromise \in {"unset", "polling", "deleting", "pollFailed", "threw"}
    /\ timers \in Nat
    /\ loops \in Nat
    /\ queue \subseteq Messages
    /\ InFlight <= MaxQueue
    /\ callPc \in [CallIds -> {"idle", "awaiting", "publishing", "done", "rejected"}]
    /\ stopPc \in {"idle", "waiting", "returned", "threw", "returnedAgain"}
    /\ cleanupPc \in {"idle", "cancelling", "cancelled", "rejected", "deleting",
                     "done", "threw"}

\* ---------------------------------------------------------------------
\* Properties of the queue-mode call path
\* ---------------------------------------------------------------------
UnmatchedEntry(e) == e.msg \in ResponseMsgs /\ ~e.found
CollectorRejected == resultCollectorPromise \in {"pollFailed", "threw"}

\* C1: exactly-once settlement.  For every CallId, resolve or reject is
\* invoked on its deferred at most once, whatever responses (duplicates
\* included) are received and whenever cancelWithoutCleanup runs.
ExactlyOnceSettlement == \A c \in CallIds : settled[c] <= 1

\* A second response for a CallId already settled has been processed.
DuplicateAfterSettlement ==
    \E e \in batch :
        /\ UnmatchedEntry(e)
        /\ e.msg.CallId \in CallIds
        /\ settled[e.msg.CallId] = 1

\* C2: round trip.  A call made in queue mode, whose request the lambda
\* answers once it is published, eventually completes with the lambda's
\* result - unless it was cancelled, its publish failed or the collector's
\* promise rejected.
RoundTripDone(c) == rv[c] = ResponseOf(FunctionResult(c))
RoundTripExcused(c) ==
    \/ callPc[c] = "rejected"
    \/ CollectorRejected
RoundTrip ==
    \A c \in CallIds :
        (callPc[c] = "awaiting") ~> (RoundTripDone(c) \/ RoundTripExcused(c))

\* C3: drain cancels everything.  cancelWithoutCleanup rejects every call
\* pending at that moment with the cancellation error and leaves the table
\* empty; no call completed from a response (a remote error included)
\* carries the cancellation error.
DrainCancelsAll ==
    [][Stop =>
        /\ callResultPromises' = {}
        /\ \A c \in callResultPromises :
              /\ rv'[c] = RejectedRv(CancelMessage)
              /\ callPc'[c] = "rejected"
        /\ \A c \in CallIds :
              returned'[c] # NoMsg => rv'[c] # RejectedRv(CancelMessage)
        /\ \A c \in CallIds :
              (callPc'[c] = "done" /\ returned'[c].type = "error")
                  => (rv'[c].status = "fulfilled" /\ rv'[c].error = "remote")
    ]_vars

\* A drain has rejected a pending call while another call had completed with
\* a remote error.
DrainedWithRemoteError ==
    /\ stopPc # "idle"
    /\ callResultPromises = {}
    /\ \E c, d \in CallIds :
          /\ rv[c] = RejectedRv(CancelMessage)
          /\ rv[d].status = "fulfilled" /\ rv[d].error = "remote"

\* C4: no residual background activity.  Once cancelWithoutCleanup has
\* returned (and no call was made since), no collector is running, none of
\* its requests is in flight and no restart timer is scheduled.
NoResidualActivity ==
    stopPc = "returned" =>
        /\ resultCollectorPromise = "unset"
        /\ batch = {}
        /\ timers = 0

\* Messages handed to a dead-letter operation: resultCollector has none, an
\* unmatched response is only logged.
deadLettered == {}
\* Messages for which deleteMessage has been issued.
DeleteIssued == {e.msg : e \in batch}

\* C7: dead-letter routing.  Every response whose CallId has no entry in the
\* table when it is processed is dead-lettered and not deleted.
DeadLetterRouting ==
    \A e \in batch :
        UnmatchedEntry(e) => (e.msg \in deadLettered /\ e.msg \notin DeleteIssued)

\* C8: an unmatched response has no effect on callers.  When receiveMessage
\* returns, a batch in which no deferred was found leaves the table and every
\* call unchanged; in any batch, a call without an entry in the table is left
\* unchanged; and the collector goes on (only a message that JSON.parse
\* rejects makes it throw).
UnmatchedNoEffect ==
    [][(resultCollectorPromise = "polling"
        /\ resultCollectorPromise' \notin {"polling", "pollFailed"}) =>
          /\ (\A e \in batch' : ~e.found)
                => /\ callResultPromises' = callResultPromises
                   /\ UNCHANGED callVars
          /\ resultCollectorPromise' = "threw" => \E m \in queue : Unparsable(m)
          /\ \A c \in CallIds \ callResultPromises :
                 /\ c \notin callResultPromises'
                 /\ callPc'[c] = callPc[c] /\ rv'[c] = rv[c]
                 /\ settled'[c] = settled[c] /\ returned'[c] = returned[c]
    ]_vars

\* The collector has processed a batch of unmatched responses, one of them a
\* duplicate for a settled call, while a call is pending.
UnmatchedBatchProcessed ==
    /\ resultCollectorPromise = "deleting"
    /\ batch # {}
    /\ \A e \in batch : UnmatchedEntry(e)
    /\ \E e \in batch : e.msg.CallId \in CallIds
    /\ callResultPromises # {}

\* C9: publish failure.  A call whose sns.publish failed is rejected with
\* that error at once and has no entry in the table.
PublishFailureSettles ==
    [][\A c \in CallIds :
          PublishFail(c) =>
            /\ rv'[c] = RejectedRv(PublishError)
            /\ callPc'[c] = "rejected"
            /\ c \notin callResultPromises'
    ]_vars

\* A publish has failed.
PublishHasFailed ==
    \E c \in CallIds : callPc[c] = "rejected" /\ rv[c].error = PublishError

\* C10: poll failures are absorbed.  A failed receiveMessage does not end
\* the collector: its promise is never left rejected by a poll failure, so
\* pending calls can still be resolved and a later cancelWithoutCleanup
\* completes.
PollFailuresAbsorbed == resultCollectorPromise # "pollFailed"

\* C11: only three ways to settle.  A call leaves its await only through a
\* received response carrying its own CallId or through cancelWithoutCleanup;
\* its future leaves the pending state only on the completion or the failure
\* of its own publish, or through cancelWithoutCleanup (there is no timeout);
\* a rejection carries the publish error or the cancellation error, and a
\* step in which the collector's promise rejects (failed poll, malformed
\* message) changes no future.
OnlyThreeWays ==
    [][\A c \in CallIds :
          /\ (callPc[c] = "awaiting" /\ callPc'[c] # "awaiting") =>
                \/ /\ resultCollectorPromise = "polling"
                   /\ callPc'[c] = "publishing"
                   /\ returned'[c] \in queue
                   /\ returned'[c].CallId = c
                \/ /\ Stop
                   /\ c \in callResultPromises
                   /\ rv'[c] = RejectedRv(CancelMessage)
          /\ (rv[c] = PendingRv /\ rv'[c] # PendingRv) =>
                \/ PublishOk(c) /\ returned[c].CallId = c
                \/ PublishFail(c)
                \/ Stop /\ c \in callResultPromises
          /\ rv'[c].status = "rejected" =>
                rv'[c].error \in {PublishError, CancelMessage}
          /\ (resultCollectorPromise = "polling"
              /\ resultCollectorPromise' \in {"pollFailed", "threw"}) =>
                rv'[c] = rv[c] /\ (callPc'[c] = "rejected" => callPc[c] = "rejected")
    ]_vars

\* The collector has processed an unmatched response and then thrown on a
\* malformed message while a call is still pending.
PendingDespiteAnomalies ==
    /\ resultCollectorPromise = "threw"
    /\ \E e \in batch : UnmatchedEntry(e)
    /\ \E c \in callResultPromises : callPc[c] = "awaiting" /\ rv[c] = PendingRv

\* C12: outcome mapping.  A completed call whose response has type
\* "returned" carries the returned value and no error; one whose response
\* has type "error" carries the remote error and no value.
OutcomeMapping ==
    \A c \in CallIds :
        callPc[c] = "done" =>
            /\ returned[c].CallId = c
            /\ rv[c].status = "fulfilled"
            /\ returned[c].type = "returned" =>
                  /\ rv[c].value = ValueFor(c)
                  /\ rv[c].error = "none"
            /\ returned[c].type = "error" =>
                  /\ rv[c].error = "remote"
                  /\ rv[c].errValue = ValueFor(c)
                  /\ rv[c].value = 0

\* One call has completed with a value and another with a remote error.
BothOutcomesSeen ==
    \E c, d \in CallIds :
        /\ callPc[c] = "done" /\ returned[c].type = "returned"
        /\ callPc[d] = "done" /\ returned[d].type = "error"

\* C13: cancelWithoutCleanup is idempotent.  Called after an earlier
\* cancelWithoutCleanup has returned (no call made since), it changes nothing
\* - no table entry, no future, no collector, no timer, no request - and
\* returns.
StopIdempotent ==
    [][(stopPc \in Stopped /\ Stop) =>
          /\ UNCHANGED <<callResultPromises, resultCollectorPromise, timers,
                         queue, batch, callVars, loops>>
          /\ stopPc' = "returnedAgain"
    ]_vars

\* A second cancelWithoutCleanup has returned after a first one that
\* rejected a call.
StoppedTwice ==
    /\ stopPc = "returnedAgain"
    /\ \E c \in CallIds : rv[c] = RejectedRv(CancelMessage)

\* C14: the poll loop does not exit on an empty table.  While no
\* cancelWithoutCleanup has been requested, a running collector (polling or
\* deleting) does not end.
LoopKeepsPolling ==
    [][(resultCollectorPromise \in {"polling", "deleting"}
        /\ stopPc = "idle" /\ stopPc' = "idle") =>
          resultCollectorPromise' # "unset"
    ]_vars

\* C21: the engine state is monotone.  Once cancelWithoutCleanup has been
\* requested (and until a state is reached by new work, which the claim
\* excludes) no entry is added to the table and no collector not polling
\* goes back to polling.
EngineMonotone ==
    [][stopPc # "idle" =>
          /\ callResultPromises' \subseteq callResultPromises
          /\ resultCollectorPromise # "polling" => resultCollectorPromise' # "polling"
    ]_vars

\* C22: publish does not wait for the outcome.  When sns.publish is issued
\* for a call, the call's deferred has not been settled.
PublishNotGated ==
    \A c \in CallIds : callPc[c] = "publishing" => settled[c] = 0

\* C23: register before publish.  Whenever the request of a call has been
\* handed to sns.publish and the call has not completed, the table holds the
\* call's CallId.
RegisteredWhilePublished ==
    \A c \in CallIds :
        (callPc[c] = "publishing" /\ rv[c] = PendingRv) => c \in callResultPromises

\* C24: pending-table invariant.  A CallId is in the table exactly while its
\* call is registered and its deferred unsettled (the call awaits it); a
\* deferred is settled at most once, and a call that left the table did so by
\* a response carrying its CallId or by cancelWithoutCleanup.
PendingTableInvariant ==
    \A c \in CallIds :
        /\ c \in callResultPromises <=> (callPc[c] # "idle" /\ settled[c] = 0)
        /\ c \in callResultPromises <=> callPc[c] = "awaiting"
        /\ settled[c] <= 1
        /\ callPc[c] \in {"publishing", "done"} => returned[c].CallId = c
        /\ callPc[c] = "rejected" =>
              \/ rv[c] = RejectedRv(CancelMessage) /\ returned[c] = NoMsg
              \/ rv[c] = RejectedRv(PublishError)

\* One call has left the table by its response and another by the drain.
RemovedBothWays ==
    /\ callResultPromises = {}
    /\ \E c, d \in CallIds :
          /\ callPc[c] \in {"publishing", "done"} /\ settled[c] = 1
          /\ rv[d] = RejectedRv(CancelMessage) /\ settled[d] = 1

\* C25: single consumer.  At most one activation of resultCollector is under
\* way, and it is the one state.resultCollectorPromise stands for.
SingleConsumer ==
    /\ loops <= 1
    /\ loops = 1 <=> resultCollectorPromise \in {"polling", "deleting"}

\* A call started a collector while the restart timer of the previous one
\* is still scheduled.
RestartRace ==
    /\ timers > 0
    /\ resultCollectorPromise = "polling"
    /\ callResultPromises # {}
    /\ loops = 1

\* C26: no pending call without a consumer.  While the table is not empty
\* and no cancelWithoutCleanup has been requested, a collector is running.
ConsumerWhilePending ==
    (callResultPromises # {} /\ stopPc = "idle") => loops = 1

\* C27: cancelWithoutCleanup terminates.  With every receiveMessage
\* returning, a cancelWithoutCleanup that waits for the collector eventually
\* stops waiting.
StopTerminates == (stopPc = "waiting") ~> (stopPc # "waiting")

\* C28: the drain sentinel.  A cancelWithoutCleanup called while a collector
\* is running puts a "stop" control message on the response queue.
StopSendsSentinel ==
    [][(Stop /\ resultCollectorPromise \in {"polling", "deleting"}) =>
          \E m \in ControlMsgs : m \in queue' /\ m \notin queue
    ]_vars

\* C29: the batch is finished before the loop exits.  A "stop" control
\* message never makes the collector throw (the rest of its batch is
\* processed), and after a batch that held one the collector exits with
\* the remaining calls cancelled.
StopBatchFinished ==
    [][/\ (resultCollectorPromise = "polling" /\ resultCollectorPromise' = "threw") =>
             \E m \in queue : m.type = "malformed"
       /\ (/\ resultCollectorPromise = "deleting"
           /\ resultCollectorPromise' # "deleting"
           /\ \E e \in batch : e.msg \in ControlMsgs) =>
             /\ resultCollectorPromise' = "unset"
             /\ callResultPromises' = {}
             /\ \A c \in callResultPromises : rv'[c] = RejectedRv(CancelMessage)
    ]_vars

\* C30: malformed messages are absorbed.  A message whose Body cannot be
\* parsed never ends the collector.
MalformedAbsorbed == resultCollectorPromise # "threw"

\* ---------------------------------------------------------------------
\* Properties of the funnel
\* ---------------------------------------------------------------------
\* C5: concurrency bound.  The operations executing at any moment number at
\* most `concurrency` (the slot counter counts exactly the admitted ones);
\* with concurrency = 1 an operation starts only when none is executing.
ConcurrencyBound ==
    /\ Cardinality(Executing) <= options.concurrency
    /\ concurrencyInUse = Cardinality(Admitted)
    /\ concurrencyInUse <= options.concurrency

\* More operations than slots are in the funnel and every slot is taken.
SlotsFullWithWaiters ==
    /\ Cardinality(Executing) = options.concurrency
    /\ admissionQueue # <<>>
    /\ rateTokens >= 1

\* C6: memoization dedup.  In a memoized funnel each key has at most one
\* underlying execution in flight; the calls that joined an in-flight
\* execution caused no execution of their own and observe its outcome.
MemoDedup ==
    options.memoize =>
        /\ \A k \in Keys :
              Cardinality({i \in Ops : /\ ops[i].key = k
                                       /\ ops[i].state \in {"waiting", "executing",
                                                            "backoff"}}) <= 1
        /\ \A j \in Ops :
              ops[j].joined =>
                /\ ops[j].attempts = 0
                /\ ops[j].owner # j
                /\ ops[j].key = ops[ops[j].owner].key
                /\ ops[j].result = ops[ops[j].owner].result

\* Two calls with the same key were in the funnel together and both have
\* the outcome of the single execution.
JoinedCallSettled ==
    /\ options.memoize
    /\ \E j \in Ops :
          /\ ops[j].joined
          /\ ops[j].state \in {"done", "failed"}
          /\ ops[ops[j].owner].attempts >= 1

\* The operations admitted so far.
AdmittedCount == Cardinality({i \in Ops : ops[i].attempts >= 1})

\* C15: rate bound.  The token count stays within 0..burst; every admission
\* has consumed exactly one token (the tokens left are the initial burst plus
\* one per refill tick minus one per admission); hence after t refill ticks
\* at most burst + t operations have been admitted (rate: one token a tick).
RateBound ==
    /\ rateTokens \in 0..options.burst
    /\ rateTokens = options.burst + refillTicks - AdmittedCount
    /\ AdmittedCount <= options.burst + refillTicks

\* A call waits for a token only: the bucket is empty after a refill, a
\* slot is free.
WaitingForToken ==
    /\ rateTokens = 0
    /\ refillTicks >= 1
    /\ admissionQueue # <<>>
    /\ concurrencyInUse < options.concurrency

\* C16: FIFO admission.  The call that starts executing is, among the calls
\* waiting for admission, the one submitted first (calls are submitted in
\* the order of their numbers); completion order is not constrained.
FifoAdmission ==
    [][\A i \in Ops :
          (ops[i].state = "waiting" /\ ops'[i].state = "executing") =>
              \A j \in Ops : ops[j].state = "waiting" => i <= j
    ]_vars

\* A call admitted later has completed while one admitted earlier still
\* executes and a third waits.
LaterFinishedFirst ==
    \E i, j, w \in Ops :
        /\ i < j
        /\ ops[i].state = "executing"
        /\ ops[j].state = "done" /\ ops[j].owner = j
        /\ ops[w].state = "waiting"

\* C17: contention never fails a call.  A waiting call leaves the admission
\* queue only by starting to execute (it is never rejected or timed out),
\* and with refills continuing and executions ending every waiting call is
\* eventually admitted and executed.
ContentionNeverFails ==
    /\ [][\A i \in Ops :
             ops[i].state = "waiting" => ops'[i].state \in {"waiting", "executing"}
         ]_vars
    /\ \A i \in Ops : (ops[i].state = "waiting") ~> (ops[i].attempts >= 1)

\* Two calls wait while every slot is taken and the bucket is empty.
ContentionOnBothGates ==
    /\ Len(admissionQueue) >= 2
    /\ rateTokens = 0
    /\ concurrencyInUse = options.concurrency

\* C18: retry.  An operation is executed at most retry + 1 times; a call
\* that succeeded has the value of its last attempt (nothing is executed
\* after a success); a call fails only after attempt retry + 1, with the
\* error of that attempt itself.
RetryBound ==
    \A i \in Ops :
        /\ ops[i].attempts <= options.retry + 1
        /\ ops[i].state = "backoff" => ops[i].attempts <= options.retry
        /\ (ops[i].state = "done" /\ ops[i].owner = i) =>
              ops[i].result = [kind |-> "ok", by |-> i, attempt |-> ops[i].attempts]
        /\ (ops[i].state = "failed" /\ ops[i].owner = i) =>
              /\ ops[i].attempts = options.retry + 1
              /\ ops[i].result =
                    [kind |-> "err", by |-> i, attempt |-> options.retry + 1]

\* With retry >= 1, one call has succeeded at a retry and another has
\* failed after its last attempt.
RetriedBothWays ==
    /\ options.retry >= 1
    /\ \E i, j \in Ops :
          /\ ops[i].state = "failed" /\ ops[i].owner = i
          /\ ops[j].state = "done" /\ ops[j].owner = j /\ ops[j].attempts >= 2

\* C19: memoization evicts failures.  No cache entry refers to a failed
\* execution, so a call made after the failure executes afresh; a call has
\* the error of another call's execution only if it joined that execution
\* while it was in flight.
MemoEvictsFailures ==
    options.memoize =>
        /\ \A k \in Keys :
              memoCache[k].state # "none" =>
                  ops[memoCache[k].owner].state # "failed"
        /\ \A j \in Ops :
              (ops[j].result.kind = "err" /\ ops[j].owner # j) => ops[j].joined
        /\ \A j \in Ops :
              ops[j].state = "attached" =>
                  ops[ops[j].owner].state \in {"waiting", "executing", "backoff"}

\* After the execution for a key failed, a later call for that key has been
\* executed itself.
FreshAfterFailure ==
    /\ options.memoize
    /\ \E i, j \in Ops :
          /\ i < j
          /\ ops[i].key = ops[j].key
          /\ ops[i].state = "failed" /\ ops[i].owner = i
          /\ ops[j].owner = j /\ ops[j].attempts >= 1

\* C20: memoization retains successes.  A key has at most one successful
\* execution, whose entry stays in the cache; while a key's entry is
\* resolved no call for that key waits or executes, and every call served
\* from the cache has the value of that execution and executed nothing.
MemoRetainsSuccess ==
    options.memoize =>
        /\ \A k \in Keys :
              Cardinality({i \in Ops : /\ ops[i].key = k /\ ops[i].owner = i
                                       /\ ops[i].result.kind = "ok"}) <= 1
        /\ \A i \in Ops :
              (ops[i].state = "done" /\ ops[i].owner = i) =>
                  memoCache[ops[i].key] = [state |-> "resolved", owner |-> i]
        /\ \A i \in Ops :
              (ops[i].state # "new" /\ memoCache[ops[i].key].state = "resolved") =>
                  ops[i].state \in {"done", "failed"}
        /\ \A j \in Ops :
              (ops[j].state = "done" /\ ops[j].owner # j) =>
                  /\ ops[j].attempts = 0
                  /\ ops[j].key = ops[ops[j].owner].key
                  /\ ops[j].result = [kind |-> "ok", by |-> ops[j].owner,
                                      attempt |-> ops[ops[j].owner].attempts]

\* Two calls made after the success of a key's execution were both served
\* from the cache.
TwoCacheHits ==
    /\ options.memoize
    /\ \E j1, j2 \in Ops :
          /\ j1 # j2
          /\ ops[j1].key = ops[j2].key
          /\ \A j \in {j1, j2} :
                ops[j].state = "done" /\ ops[j].owner # j /\ ~ops[j].joined

\* ---------------------------------------------------------------------
\* Part 3: acknowledgement, delivery order, cleanup
\* ---------------------------------------------------------------------
\* C31: acknowledge after processing.  Whenever the deleteMessage of a
\* response is in flight or done, the pending call it matched has been
\* removed from the table and its deferred settled: no response is
\* acknowledged before it has been processed.
AckAfterProcessing ==
    \A e \in batch :
        e.found =>
            /\ e.msg.CallId \notin callResultPromises
            /\ settled[e.msg.CallId] >= 1
            /\ callPc[e.msg.CallId] # "awaiting"

\* The deleteMessage of a response that matched a pending call is in flight.
AckInFlight == \E e \in batch : e.found /\ resultCollectorPromise = "deleting"

\* C32: delivery order does not matter.  In every step in which
\* resultCollector processes a batch - whatever messages it holds and in
\* whatever order - a deferred is settled only by the response carrying its
\* own CallId, every pending call whose response was processed is settled
\* with that response, and no other call is touched.
DeliveryOrderIrrelevant ==
    [][(resultCollectorPromise = "polling"
        /\ resultCollectorPromise' \in {"deleting", "threw"}) =>
       \A c \in CallIds :
          LET processed == FunctionResult(c) \in queue \ queue' IN
          /\ settled'[c] # settled[c] => processed /\ c \in callResultPromises
          /\ (processed /\ c \in callResultPromises) =>
                 /\ settled'[c] = settled[c] + 1
                 /\ c \notin callResultPromises'
                 /\ returned'[c] = FunctionResult(c)
                 /\ callPc'[c] = "publishing"
          /\ ~(processed /\ c \in callResultPromises) =>
                 /\ returned'[c] = returned[c]
                 /\ callPc'[c] = callPc[c]
                 /\ (c \in callResultPromises' <=> c \in callResultPromises)]_vars

\* The response of the later call was delivered first: the later call has
\* completed with its own result while the earlier one, whose response is
\* on the queue, is still pending.
LaterCallAnsweredFirst ==
    \E c, d \in CallIds :
        /\ c < d
        /\ callPc[d] = "done" /\ rv[d] = ResponseOf(FunctionResult(d))
        /\ callPc[c] = "awaiting" /\ FunctionResult(c) \in queue

\* C33: cleanup ordering.  cleanup issues deleteTopic and deleteQueue only
\* once the drain is complete - no call is pending and no resultCollector is
\* running - and no resultCollector polls the response queue once cleanup
\* has deleted it.
CleanupOrdering ==
    [][/\ (cleanupPc # "deleting" /\ cleanupPc' = "deleting") =>
              callResultPromises = {} /\ loops = 0
       /\ cleanupPc' = "done" => resultCollectorPromise' # "polling"]_vars

\* ---------------------------------------------------------------------
\* Part 4: garbage collection
\* ---------------------------------------------------------------------
\* The concurrency of the funnel each collectGarbage run creates.
GcConcurrency == 5

Active == {"logGroups", "functions", "awaiting"}
ActiveRuns == {r \in Runs : gcPc[r] \in Active}
WorkersInFlight(r) == gcWorkers[r].queued + gcWorkers[r].executing

\* The test at the head of collectGarbage.
\* Variant: the flag is not tested.
ReturnsAtOnceNever(running) == FALSE
ReturnsAtOnce(running) == running

\* The flag after the try statement of a run that had set it; failed tells
\* whether an await inside it threw.
\* Variant: the flag is cleared at the end of the try block, not in finally.
FlagAfterTryNoFinally(failed) == failed
FlagAfterTry(failed) == FALSE

\* collectGarbage up to its first await: the flag is tested and set, the
\* funnel created and describeLogGroups issued.
collectGarbageCall(r) ==
    /\ gcPc[r] = "idle"
    /\ \A q \in Runs : q < r => gcPc[q] # "idle"
    /\ IF ReturnsAtOnce(garbageCollectorRunning)
       THEN /\ gcPc' = [gcPc EXCEPT ![r] = "skipped"]
            /\ UNCHANGED garbageCollectorRunning
       ELSE /\ garbageCollectorRunning' = TRUE
            /\ gcPc' = [gcPc EXCEPT ![r] = "logGroups"]
    /\ UNCHANGED gcWorkers

collectGarbage(r) ==
    /\ collectGarbageCall(r)
    /\ UNCHANGED <<engineVars, funnelVars, initVars, pollVars>>

\* scheduleWork: k workers are given to the run's funnel.
scheduleWork(r, k) ==
    /\ WorkersInFlight(r) + k <= MaxWorkers
    /\ gcWorkers' = [gcWorkers EXCEPT ![r].queued = @ + k]

\* The eachPage callback of describeLogGroups or listFunctions with a page:
\* garbageCollectLogGroups or deleteGarbageFunctions schedules a worker for
\* each piece of garbage on it.
ListingPage(r, k) ==
    /\ gcPc[r] \in {"logGroups", "functions"}
    /\ scheduleWork(r, k)
    /\ UNCHANGED <<garbageCollectorRunning, gcPc>>
    /\ UNCHANGED <<engineVars, funnelVars, initVars, pollVars>>

\* The callback with page === null after describeLogGroups: the promise
\* resolves and listFunctions is issued.
LogGroupsEnd(r) ==
    /\ gcPc[r] = "logGroups"
    /\ gcPc' = [gcPc EXCEPT ![r] = "functions"]
    /\ UNCHANGED <<garbageCollectorRunning, gcWorkers>>
    /\ UNCHANGED <<engineVars, funnelVars, initVars, pollVars>>

\* The callback with page === null after listFunctions: Promise.all(promises)
\* is awaited; with no promise pending the run ends.
FunctionsEnd(r) ==
    /\ gcPc[r] = "functions"
    /\ IF WorkersInFlight(r) = 0
       THEN /\ gcPc' = [gcPc EXCEPT ![r] = "done"]
            /\ garbageCollectorRunning' = FlagAfterTry(FALSE)
       ELSE /\ gcPc' = [gcPc EXCEPT ![r] = "awaiting"]
            /\ UNCHANGED garbageCollectorRunning
    /\ UNCHANGED gcWorkers
    /\ UNCHANGED <<engineVars, funnelVars, initVars, pollVars>>

\* The callback with err: the promise rejects, the await throws and the
\* finally block runs.  Nothing is done about the workers already scheduled.
ListingError(r) ==
    /\ gcPc[r] \in {"logGroups", "functions"}
    /\ gcPc' = [gcPc EXCEPT ![r] = "failed"]
    /\ garbageCollectorRunning' = FlagAfterTry(TRUE)
    /\ UNCHANGED gcWorkers
    /\ UNCHANGED <<engineVars, funnelVars, initVars, pollVars>>

\* The funnel starts a queued worker.
WorkerStart(r) ==
    /\ gcWorkers[r].queued > 0
    /\ gcWorkers[r].executing < GcConcurrency
    /\ gcWorkers' = [gcWorkers EXCEPT ![r].queued = @ - 1, ![r].executing = @ + 1]
    /\ UNCHANGED <<garbageCollectorRunning, gcPc>>
    /\ UNCHANGED <<engineVars, funnelVars, initVars, pollVars>>

\* A worker ends (its requests are all wrapped in quietly(), it does not
\* reject).  The last one resolves Promise.all(promises).
WorkerDone(r) ==
    /\ gcWorkers[r].executing > 0
    /\ gcWorkers' = [gcWorkers EXCEPT ![r].executing = @ - 1]
    /\ IF gcPc[r] = "awaiting" /\ WorkersInFlight(r) = 1
       THEN /\ gcPc' = [gcPc EXCEPT ![r] = "done"]
            /\ garbageCollectorRunning' = FlagAfterTry(FALSE)
       ELSE UNCHANGED <<garbageCollectorRunning, gcPc>>
    /\ UNCHANGED <<engineVars, funnelVars, initVars, pollVars>>

GcStep ==
    \/ \E r \in Runs, k \in 1..MaxWorkers : ListingPage(r, k)
    \/ \E r \in Runs : LogGroupsEnd(r)
    \/ \E r \in Runs : FunctionsEnd(r)
    \/ \E r \in Runs : ListingError(r)
    \/ \E r \in Runs : WorkerStart(r)
    \/ \E r \in Runs : WorkerDone(r)

GcNext ==
    \/ \E r \in Runs : collectGarbage(r)
    \/ GcStep

GcSpec == Init /\ [][GcNext]_vars

\* C34: garbage collection is non-reentrant.  At most one collectGarbage
\* run is active at any time and the flag is set while one is; a call made
\* while a run is active has returned at once: it has scheduled nothing and
\* has left the flag of the active run set.
GcNonReentrant ==
    /\ Cardinality(ActiveRuns) <= 1
    /\ ActiveRuns # {} => garbageCollectorRunning
    /\ \A r \in Runs : gcPc[r] = "skipped" => gcWorkers[r] = NoWorkers

\* A call was made while another run was active, which still is.
SkippedWhileActive ==
    \E r, q \in Runs :
        /\ gcPc[r] = "skipped"
        /\ gcPc[q] \in Active
        /\ WorkersInFlight(q) > 0

\* C35: the guard is always released.  Whenever a run that had set the flag
\* ends - normally, or by a failure of a listing - the flag is false after
\* the step, so that the next collectGarbage call passes the test.
GuardReleased ==
    [][\A r \in Runs :
          (gcPc[r] \in Active /\ gcPc'[r] \in {"done", "failed"}) =>
              /\ ~garbageCollectorRunning'
              /\ ~ReturnsAtOnce(garbageCollectorRunning')]_vars

\* A run has failed and a later call of collectGarbage is running.
RanAfterFailure ==
    \E r, q \in Runs : r < q /\ gcPc[r] = "failed" /\ gcPc[q] \in Active

\* C36: guard off means no work in flight.  Whenever the flag is false, no
\* worker scheduled by a collectGarbage run is queued or executing.
GuardOffNoWork ==
    ~garbageCollectorRunning => \A r \in Runs : WorkersInFlight(r) = 0

\* ---------------------------------------------------------------------
\* Part 5: initialize
\* ---------------------------------------------------------------------
\* How state.gcPromise stands: collectGarbage's promise resolves when the
\* call returned at the flag test or completed, and rejects when it failed.
GcPromiseResolved ==
    IF gcPromise = 0 THEN TRUE ELSE gcPc[gcPromise] \in {"done", "skipped"}
GcPromiseRejected ==
    IF gcPromise = 0 THEN FALSE ELSE gcPc[gcPromise] = "failed"

\* initialize up to its first await, getAccountId.
initialize ==
    /\ initPc = "idle"
    /\ initPc' = "accountId"
    /\ UNCHANGED <<gcPromise, queueState, initError, resources>>
    /\ UNCHANGED <<engineVars, funnelVars, gcVars, pollVars>>

\* getAccountId fails: initialize rejects before a State is built.
getAccountIdFails ==
    /\ initPc = "accountId"
    /\ initPc' = "rejected"
    /\ initError' = "underlying"
    /\ UNCHANGED <<gcPromise, queueState, resources>>
    /\ UNCHANGED <<engineVars, funnelVars, gcVars, pollVars>>

\* getAccountId returns: the State is built, collectGarbage is called when
\* the gc option is set, and the promises of the try block are created and
\* awaited.
getAccountIdReturns(gc) ==
    /\ initPc = "accountId"
    /\ initPc' = "creating"
    /\ resources' = "recorded"
    /\ IF gc
       THEN \E r \in Runs : collectGarbageCall(r) /\ gcPromise' = r
       ELSE UNCHANGED <<gcPromise, gcVars>>
    /\ UNCHANGED <<queueState, initError>>
    /\ UNCHANGED <<engineVars, funnelVars, pollVars>>

\* Queue mode: createQueueImpl has returned and state.queueState is set.
queueImplAdded ==
    /\ initPc = "creating"
    /\ queueState = "unset"
    /\ queueState' = "running"
    /\ UNCHANGED <<initPc, gcPromise, initError, resources>>
    /\ UNCHANGED <<engineVars, funnelVars, gcVars, pollVars>>

\* Promise.all(promises) resolves: the State is returned.
initializeReturns ==
    /\ initPc = "creating"
    /\ initPc' = "returned"
    /\ UNCHANGED <<gcPromise, queueState, initError, resources>>
    /\ UNCHANGED <<engineVars, funnelVars, gcVars, pollVars>>

\* Promise.all(promises) rejects: the catch block calls cleanup(state),
\* which calls stop(state); the queue is stopped and the retention policy
\* requested.
initializeCatches ==
    /\ initPc = "creating"
    /\ initPc' = "stopping"
    /\ queueState' = IF queueState = "running" THEN "stopped" ELSE queueState
    /\ UNCHANGED <<gcPromise, initError, resources>>
    /\ UNCHANGED <<engineVars, funnelVars, gcVars, pollVars>>

\* "await state.gcPromise" in stop throws when the promise is rejected.
StopThrows == GcPromiseRejected

\* stop returns and cleanup calls deleteResources.
stopReturns ==
    /\ initPc = "stopping"
    /\ IF GcPromiseRejected THEN ~StopThrows ELSE GcPromiseResolved
    /\ initPc' = "deleting"
    /\ UNCHANGED <<gcPromise, queueState, initError, resources>>
    /\ UNCHANGED <<engineVars, funnelVars, gcVars, pollVars>>

\* The rejection of state.gcPromise leaves stop, cleanup and the catch
\* block of initialize: deleteResources and "throw err" are not reached.
stopThrows ==
    /\ initPc = "stopping"
    /\ StopThrows
    /\ initPc' = "rejected"
    /\ initError' = "gc"
    /\ UNCHANGED <<gcPromise, queueState, resources>>
    /\ UNCHANGED <<engineVars, funnelVars, gcVars, pollVars>>

\* deleteResources has completed (each request is wrapped in quietly());
\* cleanup returns and the catch block throws err.
deleteResourcesDone ==
    /\ initPc = "deleting"
    /\ resources' = "deleted"
    /\ initPc' = "rejected"
    /\ initError' = "underlying"
    /\ UNCHANGED <<gcPromise, queueState>>
    /\ UNCHANGED <<engineVars, funnelVars, gcVars, pollVars>>

InitializeNext ==
    \/ \E r \in Runs : collectGarbage(r)
    \/ GcStep
    \/ initialize
    \/ getAccountIdFails
    \/ \E gc \in BOOLEAN : getAccountIdReturns(gc)
    \/ queueImplAdded
    \/ initializeReturns
    \/ initializeCatches
    \/ stopReturns
    \/ stopThrows
    \/ deleteResourcesDone

InitializeSpec == Init /\ [][InitializeNext]_vars

\* C37: initialize fails cleanly.  When initialize has rejected after a
\* step failed on a State it had built, cleanup has run on that State - the
\* queue, if started, is stopped and the recorded resources are deleted -
\* and the rejection carries the underlying error of the failed step.
InitializeFailsCleanly ==
    (initPc = "rejected" /\ resources # "none") =>
        /\ initError = "underlying"
        /\ resources = "deleted"
        /\ queueState # "running"

\* ---------------------------------------------------------------------
\* Part 6: pollAWSRequest
\* ---------------------------------------------------------------------
\* The first value of duration, its increment and the value it stops at.
InitialDuration == 1000
DurationStep == 1000
DurationCap == 5000

\* The update of duration after a sleep.
\* Variant: the test against the cap is missing.
NextDurationUncapped(d) == d + DurationStep
NextDuration(d) == IF d < DurationCap THEN d + DurationStep ELSE d

\* The test of the for loop.
\* Variant: the loop runs once more.
PollLoopTestInclusive(i, n) == i <= n
PollLoopTest(i, n) == i < n

\* Where the function stands once the loop test is evaluated for i: in the
\* loop body, awaiting quietly(fn()), or after the loop, awaiting
\* fn().promise().  fn() is called either way.
PcAtAttempt(i, n) == IF PollLoopTest(i, n) THEN "requesting" ELSE "last"

pollAWSRequest(n) ==
    /\ pollPc = "idle"
    /\ pollN' = n
    /\ duration' = InitialDuration
    /\ pollI' = 1
    /\ pollPc' = PcAtAttempt(1, n)
    /\ attempts' = 1
    /\ UNCHANGED <<delays, pollResult>>
    /\ UNCHANGED <<engineVars, funnelVars, gcVars, initVars>>

\* The request of the loop body succeeds: its result is returned.
AttemptSucceeds ==
    /\ pollPc = "requesting"
    /\ pollPc' = "returned"
    /\ pollResult' = attempts
    /\ UNCHANGED <<pollN, pollI, duration, attempts, delays>>
    /\ UNCHANGED <<engineVars, funnelVars, gcVars, initVars>>

\* The request of the loop body fails: quietly() turns the error into
\* undefined, and sleep(duration) is awaited.
AttemptFails ==
    /\ pollPc = "requesting"
    /\ pollPc' = "sleeping"
    /\ delays' = Append(delays, duration)
    /\ UNCHANGED <<pollN, pollI, duration, attempts, pollResult>>
    /\ UNCHANGED <<engineVars, funnelVars, gcVars, initVars>>

\* sleep returns: duration is updated, i incremented and the loop test
\* evaluated; the next request is issued in the loop or after it.
SleepReturns ==
    /\ pollPc = "sleeping"
    /\ duration' = NextDuration(duration)
    /\ pollI' = pollI + 1
    /\ pollPc' = PcAtAttempt(pollI + 1, pollN)
    /\ attempts' = attempts + 1
    /\ UNCHANGED <<pollN, delays, pollResult>>
    /\ UNCHANGED <<engineVars, funnelVars, gcVars, initVars>>

\* The request after the loop succeeds.
LastAttemptSucceeds ==
    /\ pollPc = "last"
    /\ pollPc' = "returned"
    /\ pollResult' = attempts
    /\ UNCHANGED <<pollN, pollI, duration, attempts, delays>>
    /\ UNCHANGED <<engineVars, funnelVars, gcVars, initVars>>

\* The request after the loop fails: its error is logged and thrown.
LastAttemptFails ==
    /\ pollPc = "last"
    /\ pollPc' = "rejected"
    /\ pollResult' = attempts
    /\ UNCHANGED <<pollN, pollI, duration, attempts, delays>>
    /\ UNCHANGED <<engineVars, funnelVars, gcVars, initVars>>

PollNext ==
    \/ \E n \in 0..MaxAttempts : pollAWSRequest(n)
    \/ AttemptSucceeds
    \/ AttemptFails
    \/ SleepReturns
    \/ LastAttemptSucceeds
    \/ LastAttemptFails

PollSpec == Init /\ [][PollNext]_vars

\* C38: backoff is monotone and capped.  The delays slept after the failed
\* attempts of one pollAWSRequest call never decrease and never exceed
\* 5000 ms; they are 1000, 2000, 3000, 4000, 5000, 5000, ...
BackoffMonotoneCapped ==
    /\ \A j \in DOMAIN delays :
          /\ delays[j] = (IF j < 5 THEN 1000 * j ELSE 5000)
          /\ delays[j] <= DurationCap
    /\ \A j, k \in DOMAIN delays : j <= k => delays[j] <= delays[k]

\* Six attempts have failed and the cap was slept twice.
CapSleptTwice == Len(delays) >= 6 /\ delays[5] = delays[6]

\* C39: pollAWSRequest(n, fn) calls fn at most max(n, 1) times; when it
\* returns, it returns the result of the first attempt that succeeded and
\* that attempt is the last one made; the errors of the attempts before the
\* last are swallowed (each followed by a sleep); when it rejects, all
\* max(n, 1) attempts have failed and the error is that of the last one.
MaxOf(a, b) == IF a >= b THEN a ELSE b
PollContract ==
    /\ attempts <= MaxOf(pollN, 1)
    /\ pollPc = "returned" =>
          /\ pollResult = attempts
          /\ Len(delays) = attempts - 1
    /\ pollPc = "rejected" =>
          /\ attempts = MaxOf(pollN, 1)
          /\ pollResult = attempts
          /\ Len(delays) = attempts - 1
    /\ pollPc \in {"requesting", "last"} => Len(delays) = attempts - 1

\* A call with n = 3 has ended with its third attempt, after two swallowed
\* errors.
ThirdAttemptDecided ==
    /\ pollPc \in {"returned", "rejected"}
    /\ pollN = 3
    /\ pollResult = 3

====
